---- MODULE Spec2Model ----
(***************************************************************************)
(* Model of streamlit_detection_OP.py: the model resolver                  *)
(* (download_from_gdrive), and the script run of Inference.inference():    *)
(* sidebar, source_upload, configure, then the image branch or the         *)
(* video/webcam frame loop.  One script run is one execution of the        *)
(* __main__ block; the session is a sequence of script runs that share the *)
(* files on disk and nothing else (a new Inference object is built by      *)
(* every run).                                                             *)
(***************************************************************************)
EXTENDS Integers, Sequences, FiniteSets, TLC

\* ---- bounds of the model ------------------------------------------------
MaxFrames == 3          \* longest video / webcam horizon explored

\* ---- program constants --------------------------------------------------
MinBytes == 10000       \* size a download must exceed (line 44)

GDRIVE_MODELS == {"YOLO11m_baseline", "YOLO11m_CA", "YOLO11m_ECA", "YOLO11m_CBAM"}

Sources == {"webcam", "video", "image"}
TrkOptions == {"Yes", "No"}

\* ---- the file system ----------------------------------------------------
Absent == -1            \* no file at models/<name>.pt; otherwise its size

Exists(d, name) == d[name] # Absent

\* What the wget command leaves at the path: nothing, or a file of some size.
FetchResults == {Absent, 0, MinBytes, MinBytes + 1}

\* os.remove: raises FileNotFoundError when the file is absent; the caller's
\* `except Exception` swallows it, so either way the file is absent afterwards.
Remove(d, name) == [d EXCEPT ![name] = Absent]

\* A resolver that fetches whether or not the artifact is present.
download_always(d, name, res) ==
    LET d1 == [d EXCEPT ![name] = res]
    IN  IF Exists(d1, name) /\ d1[name] > MinBytes
        THEN [disk |-> d1, fetched |-> TRUE, res |-> res, raised |-> FALSE]
        ELSE [disk |-> Remove(d1, name), fetched |-> TRUE, res |-> res, raised |-> FALSE]

\* A resolver that keeps whatever the fetch produced (no size validation).
download_unchecked(d, name, res) ==
    IF ~Exists(d, name)
    THEN [disk |-> [d EXCEPT ![name] = res], fetched |-> TRUE, res |-> res, raised |-> FALSE]
    ELSE [disk |-> d, fetched |-> FALSE, res |-> Absent, raised |-> FALSE]

\* A resolver whose remove is not under the try block: removing a file that
\* is not there raises out of the function.
download_remove_unguarded(d, name, res) ==
    IF ~Exists(d, name)
    THEN LET d1 == [d EXCEPT ![name] = res]
         IN  IF Exists(d1, name) /\ d1[name] > MinBytes
             THEN [disk |-> d1, fetched |-> TRUE, res |-> res, raised |-> FALSE]
             ELSE [disk |-> Remove(d1, name), fetched |-> TRUE, res |-> res,
                   raised |-> ~Exists(d1, name)]
    ELSE [disk |-> d, fetched |-> FALSE, res |-> Absent, raised |-> FALSE]

\* download_from_gdrive(file_id, model_name): res is what the fetch leaves at
\* the path.  Returns the new disk, and whether a fetch was made.  The
\* function returns normally in every case (it only prints): the remove of a
\* file that is not there raises inside the try block and is caught.
download_from_gdrive(d, name, res) ==
    IF ~Exists(d, name)
    THEN LET d1 == [d EXCEPT ![name] = res]
         IN  IF Exists(d1, name) /\ d1[name] > MinBytes
             THEN [disk |-> d1, fetched |-> TRUE, res |-> res, raised |-> FALSE]
             ELSE [disk |-> Remove(d1, name), fetched |-> TRUE, res |-> res, raised |-> FALSE]
    ELSE [disk |-> d, fetched |-> FALSE, res |-> Absent, raised |-> FALSE]

\* ---- the model object ---------------------------------------------------
None == [name |-> "None", trk |-> 0]

\* A loader that hands back the tracker state of the previous model object.
YOLO_cached(name, prevTrk) == [name |-> name, trk |-> prevTrk]

\* YOLO(path): a new model object; its tracker state is the initial one.
YOLO(name, prevTrk) == [name |-> name, trk |-> 0]

\* model.track(frame, ..., persist=True): the tracker state carries over to
\* the next call on the same model object.
Track(m) == [m EXCEPT !.trk = @ + 1]

\* What a model object that is no longer used still holds: 0 when its
\* tracker is in the initial state, 1 when it has tracked frames.
Left(m) == IF m.trk > 0 THEN 1 ELSE 0

\* ---- frame sources ------------------------------------------------------
NoFail == -1
NoStop == -1
NoFrame == 0

\* A medium: whether it opens, how many frames it yields before exhaustion,
\* and the index of the read that fails with an I/O error (if any).
Streams ==
    { s \in [ok : BOOLEAN, n : 0..MaxFrames, failAt : {NoFail} \cup (0..(MaxFrames - 1))] :
        /\ (s.failAt # NoFail => s.failAt < s.n)
        /\ (~s.ok => (s.n = 0 /\ s.failAt = NoFail)) }

NoStream == [ok |-> FALSE, n |-> 0, failAt |-> NoFail]

\* cap.read() at position i: what the medium does.  The program only sees
\* success = (kind = "frame").
ReadKind(s, i) ==
    IF ~s.ok THEN "error"
    ELSE IF s.failAt = i THEN "error"
    ELSE IF i >= s.n THEN "eof"
    ELSE "frame"

\* ---- run configuration ---------------------------------------------------
\* Slider positions in hundredths: the defaults of __init__ and one other.
DefaultThr == [conf |-> 25, iou |-> 45]
Thresholds == {DefaultThr, [conf |-> 50, iou |-> 70]}

\* What the process may be started with: no argument, or a model name.
Args == {"None", "YOLO11m_CBAM"}

NoSnap == [thr |-> DefaultThr, classes |-> {}, trk |-> "False"]

VARIABLES
    pc,             \* position of the script run
    source,         \* self.source
    enable_trk,     \* self.enable_trk
    vid_file_name,  \* self.vid_file_name
    stream,         \* the medium behind vid_file_name / the camera
    image_data,     \* self.image_data: "unset" (no attribute), "ok", "undecodable"
    selected_model, \* configure's selected_model
    model,          \* self.model
    retired,        \* tracker state left in the previous run's model object
    disk,           \* models/<name>.pt for every name
    fetched,        \* this run's download_from_gdrive ran the fetch
    fetchRes,       \* what that fetch left at the path
    started,        \* the Start button returned True in this run
    stop_button,    \* local stop_button (line 216)
    stopAt,         \* reads done when the user signalled Stop, or NoStop
    opened,         \* "na", "yes", "no": outcome of cv2.VideoCapture
    capOpen,        \* cap.isOpened()
    pos,            \* number of cap.read() calls made
    lastRead,       \* kind of the last read: "none", "frame", "eof", "error"
    frame,          \* local frame
    annotated,      \* local annotated_frame / annotated_image
    nInfer,         \* model calls made in this run
    nTrack,         \* model.track calls made in this run
    emitted,        \* pairs shown on (org_frame, ann_frame)
    releases,       \* number of cap.release() calls
    report,         \* "none", "error_open", "warn_read", "exception"
    argv,           \* sys.argv[1] of the process, or "None"
    model_path,     \* self.model_path
    conf,           \* self.conf and self.iou
    selected_ind,   \* self.selected_ind
    ui,             \* what the two sliders of the page hold
    snap,           \* the run configuration at the Start of this run
    calls,          \* the model calls of this run, with their arguments
    dlRaised        \* download_from_gdrive raised out of its body

vars == <<pc, source, enable_trk, vid_file_name, stream, image_data,
          selected_model, model, retired, disk, fetched, fetchRes, started,
          stop_button, stopAt, opened, capOpen, pos, lastRead, frame,
          annotated, nInfer, nTrack, emitted, releases, report,
          argv, model_path, conf, selected_ind, ui, snap, calls, dlRaised>>

objVars == <<source, enable_trk, vid_file_name, stream, image_data,
            model_path, conf, selected_ind>>
cfgVars == <<selected_model, model, retired, disk, fetched, fetchRes, dlRaised>>
capVars == <<opened, capOpen, pos, lastRead, releases>>
loopVars == <<frame, annotated, nInfer, nTrack, emitted, calls>>
sigVars == <<stop_button, stopAt>>
envVars == <<argv, ui, snap>>

\* Inference.__init__ plus the locals of a script run that has not started.
FreshRun ==
    /\ pc = "sidebar"
    /\ source = "None"
    /\ enable_trk = "False"
    /\ vid_file_name = "None"
    /\ stream = NoStream
    /\ image_data = "unset"
    /\ selected_model = "None"
    /\ model = None
    /\ fetched = FALSE
    /\ fetchRes = Absent
    /\ started = FALSE
    /\ stop_button = FALSE
    /\ stopAt = NoStop
    /\ opened = "na"
    /\ capOpen = FALSE
    /\ pos = 0
    /\ lastRead = "none"
    /\ frame = NoFrame
    /\ annotated = NoFrame
    /\ nInfer = 0
    /\ nTrack = 0
    /\ emitted = <<>>
    /\ releases = 0
    /\ report = "none"
    /\ model_path = argv
    /\ conf = DefaultThr
    /\ selected_ind = {}
    /\ snap = NoSnap
    /\ calls = <<>>
    /\ dlRaised = FALSE

Init ==
    /\ argv \in Args
    /\ ui = DefaultThr
    /\ FreshRun
    /\ retired = 0
    /\ disk = [m \in GDRIVE_MODELS |-> Absent]

\* ---- control-flow decisions of inference() ------------------------------

\* The image branch when nothing is shown and nothing is raised.
ImageBranch_silent(img) == IF img = "unset" THEN "skip" ELSE "run"

\* `if self.image_data:` (line 202).  __init__ never creates the attribute,
\* so reading it before an upload raises AttributeError; an uploaded file
\* object is truthy.
ImageBranch(img) == IF img = "unset" THEN "crash" ELSE "run"

\* A loop that does not test the handle.
LoopCond_always(isOpen) == TRUE

\* `while cap.isOpened():` (line 220).
LoopCond(isOpen) == isOpen

\* A failed read that goes round the loop again.
AfterFailedRead_continue == "loop"

\* `break` after a failed read (line 224): on to the release at line 241.
AfterFailedRead == "release"

\* A loop that shows the pair before it tests the Stop flag.
AfterInfer_emit == "emit"

\* After the model call and the plot (line 232) comes the Stop test of line
\* 234; the display of lines 238-239 comes after it.
AfterInfer == "stopcheck"

\* A Stop branch that falls back into the loop.
AfterStop_loops == "loop"

\* A stop call that returns to the caller.
AfterStop_returns == "emit"

\* self.st.stop() (line 236) ends the script run: nothing after it executes.
AfterStop == "stopped"

\* ---- the model calls ----------------------------------------------------

\* The classes of the objects the model finds in any frame (a fixed stub).
StubDetections == {0, 1}

\* The value of the classes= parameter: not given (None), or a list of ids.
NoClasses == [given |-> FALSE, ids |-> {}]

\* classes=self.selected_ind (lines 208, 228, 230): the list itself is
\* passed, also when it is empty.
ClassesArg(ind) == [given |-> TRUE, ids |-> ind]

\* The class filter of the model: without a list every detection is kept,
\* with a list only the detections whose class is in it.
Filter(dets, c) == IF c.given THEN dets \cap c.ids ELSE dets

\* conf= and iou= of a call that reads the sliders at the time of the call.
CallThr_live(selfThr, uiThr) == uiThr

\* conf=self.conf, iou=self.iou (lines 208, 228, 230): the attributes that
\* sidebar() set, whatever the page holds by now.
CallThr(selfThr, uiThr) == selfThr

\* The stream loop calling track whatever the radio says.
StreamMode_track(trk) == "track"

\* Lines 227-230: track when the radio says "Yes", else a plain call.
StreamMode(trk) == IF trk = "Yes" THEN "track" ELSE "detect"

\* Line 208: the image branch makes a plain call, whatever the radio says.
ImageMode(trk) == "detect"

\* One model call with its arguments and its detections.
Call(mode, f, thr, ind) ==
    [mode |-> mode, persist |-> (mode = "track"), frame |-> f, thr |-> thr,
     classes |-> ClassesArg(ind),
     dets |-> Filter(StubDetections, ClassesArg(ind))]

\* A plot of something else than the result of the frame.
Plot_stale(c) == NoFrame

\* results[0].plot() (lines 209, 232): the picture of the frame of the call.
Plot(c) == c.frame

\* ---- the script run -----------------------------------------------------

\* sidebar(): the source selector, the tracking radio and the two sliders,
\* which return what the page holds.
Sidebar ==
    /\ pc = "sidebar"
    /\ \E src \in Sources, trk \in TrkOptions :
        /\ source' = src
        /\ enable_trk' = trk
    /\ conf' = ui
    /\ pc' = "source_upload"
    /\ UNCHANGED <<vid_file_name, stream, image_data, started, report>>
    /\ UNCHANGED <<model_path, selected_ind>>
    /\ UNCHANGED <<cfgVars, capVars, loopVars, sigVars, envVars>>

\* source_upload(): vid_file_name is "" unless a video was uploaded or the
\* source is the webcam (device 0, written "0"); image_data is set only when
\* an image was uploaded.
SourceUpload ==
    /\ pc = "source_upload"
    /\ \/ /\ source = "video"
          /\ \/ /\ vid_file_name' = ""
                /\ stream' = stream
             \/ \E up \in Streams :
                /\ vid_file_name' = "uploaded_video.mp4"
                /\ stream' = up
          /\ image_data' = image_data
       \/ /\ source = "webcam"
          /\ vid_file_name' = "0"
          /\ UNCHANGED <<stream, image_data>>
       \/ /\ source = "image"
          /\ vid_file_name' = ""
          /\ stream' = stream
          /\ \/ image_data' = image_data
             \/ \E up \in {"ok", "undecodable"} : image_data' = up
    /\ pc' = "configure"
    /\ UNCHANGED <<source, enable_trk, started, report>>
    /\ UNCHANGED <<model_path, conf, selected_ind>>
    /\ UNCHANGED <<cfgVars, capVars, loopVars, sigVars, envVars>>

\* configure(): the model selector, download_from_gdrive, then YOLO(path).
\* The selector offers the names of GDRIVE_MODELS; self.model_path is not
\* read.
\* Loading a path that holds no file raises, and nothing in the program
\* catches it: the script run ends there.
Configure ==
    /\ pc = "configure"
    /\ \E m \in GDRIVE_MODELS, res \in FetchResults :
        LET r == download_from_gdrive(disk, m, res)
        IN  /\ selected_model' = m
            /\ disk' = r.disk
            /\ fetched' = r.fetched
            /\ fetchRes' = r.res
            /\ dlRaised' = r.raised
            /\ IF ~r.raised /\ Exists(r.disk, m)
               THEN /\ model' = YOLO(m, retired)
                    /\ pc' = "start"
                    /\ report' = report
               ELSE /\ model' = model
                    /\ pc' = "crashed"
                    /\ report' = "exception"
    /\ UNCHANGED <<retired, started>>
    /\ UNCHANGED <<objVars, capVars, loopVars, sigVars, envVars>>

\* `if self.st.sidebar.button("Start"):` (line 200) and the source test.
Start ==
    /\ pc = "start"
    /\ \E pressed \in BOOLEAN :
        /\ started' = pressed
        /\ snap' = IF pressed
                   THEN [thr |-> conf, classes |-> selected_ind, trk |-> enable_trk]
                   ELSE snap
        /\ pc' = IF ~pressed THEN "done"
                 ELSE IF source = "image" THEN "image" ELSE "open"
    /\ UNCHANGED <<report, argv, ui>>
    /\ UNCHANGED <<objVars, cfgVars, capVars, loopVars, sigVars>>

\* The image branch (lines 201-213, 242).  An undecodable upload makes
\* cv2.imdecode return None, which the code passes on unchecked: the model
\* call or the display may raise, or both may go through.
ImageRun ==
    /\ pc = "image"
    /\ \/ /\ ImageBranch(image_data) = "crash"
          /\ pc' = "crashed"
          /\ report' = "exception"
          /\ UNCHANGED loopVars
       \/ /\ ImageBranch(image_data) = "skip"
          /\ pc' = "done"
          /\ UNCHANGED <<report, loopVars>>
       \/ /\ ImageBranch(image_data) = "run"
          /\ image_data = "ok"
          /\ LET c == Call(ImageMode(enable_trk), 1, CallThr(conf, ui), selected_ind)
             IN  /\ frame' = 1
                 /\ calls' = Append(calls, c)
                 /\ annotated' = Plot(c)
                 /\ emitted' = Append(emitted, <<1, Plot(c)>>)
          /\ nInfer' = nInfer + 1
          /\ pc' = "done"
          /\ UNCHANGED <<report, nTrack>>
       \/ /\ ImageBranch(image_data) = "run"
          /\ image_data = "undecodable"
          /\ \/ /\ pc' = "crashed"
                /\ report' = "exception"
                /\ UNCHANGED loopVars
             \/ /\ LET c == Call(ImageMode(enable_trk), NoFrame, CallThr(conf, ui),
                                  selected_ind)
                   IN  /\ frame' = NoFrame
                       /\ calls' = Append(calls, c)
                       /\ annotated' = Plot(c)
                       /\ emitted' = Append(emitted, <<NoFrame, Plot(c)>>)
                /\ nInfer' = nInfer + 1
                /\ pc' = "done"
                /\ UNCHANGED <<report, nTrack>>
    /\ UNCHANGED started
    /\ UNCHANGED <<objVars, cfgVars, capVars, sigVars, envVars>>

\* Lines 216-219: the Stop button is read once (its value is an input of the
\* run), the capture is opened, and an error is shown when it did not open.
\* The camera is a medium of its own; the path "" opens nothing.
Open ==
    /\ pc = "open"
    /\ \E sb \in BOOLEAN, cam \in {s \in Streams : s.ok => s.n = MaxFrames} :
        LET s == IF vid_file_name = "0" THEN cam
                 ELSE IF vid_file_name = "uploaded_video.mp4" THEN stream
                 ELSE NoStream
        IN  /\ stop_button' = sb
            /\ stopAt' = IF sb THEN 0 ELSE NoStop
            /\ stream' = s
            /\ opened' = IF s.ok THEN "yes" ELSE "no"
            /\ capOpen' = s.ok
            /\ report' = IF s.ok THEN report ELSE "error_open"
    /\ pc' = "loop"
    /\ UNCHANGED <<source, enable_trk, vid_file_name, image_data, started>>
    /\ UNCHANGED <<model_path, conf, selected_ind>>
    /\ UNCHANGED <<pos, lastRead, releases>>
    /\ UNCHANGED <<cfgVars, loopVars, envVars>>

\* The loop test (line 220).
LoopTest ==
    /\ pc = "loop"
    /\ pc' = IF LoopCond(capOpen) THEN "read" ELSE "release"
    /\ UNCHANGED <<started, report>>
    /\ UNCHANGED <<objVars, cfgVars, capVars, loopVars, sigVars, envVars>>

\* Lines 221-224: cap.read(); on no success a warning and break.  The camera
\* never reports exhaustion: its reads are explored up to the horizon.
Read ==
    /\ pc = "read"
    /\ LET k == IF capOpen THEN ReadKind(stream, pos) ELSE "error"
       IN  /\ ~(vid_file_name = "0" /\ k = "eof")
           /\ pos' = pos + 1
           /\ lastRead' = k
           /\ IF k = "frame"
              THEN /\ frame' = pos + 1
                   /\ report' = report
                   /\ pc' = "infer"
              ELSE /\ frame' = NoFrame
                   /\ report' = "warn_read"
                   /\ pc' = AfterFailedRead
    /\ UNCHANGED <<opened, capOpen, releases, started>>
    /\ UNCHANGED <<annotated, nInfer, nTrack, emitted, calls>>
    /\ UNCHANGED <<objVars, cfgVars, sigVars, envVars>>

\* Lines 226-232: track or detect, then plot.
Infer ==
    /\ pc = "infer"
    /\ LET c == Call(StreamMode(enable_trk), frame, CallThr(conf, ui), selected_ind)
       IN  /\ IF c.mode = "track"
              THEN /\ model' = Track(model)
                   /\ nTrack' = nTrack + 1
              ELSE /\ model' = model
                   /\ nTrack' = nTrack
           /\ calls' = Append(calls, c)
           /\ annotated' = Plot(c)
    /\ nInfer' = nInfer + 1
    /\ pc' = AfterInfer
    /\ UNCHANGED <<selected_model, retired, disk, fetched, fetchRes, dlRaised>>
    /\ UNCHANGED <<frame, emitted, started, report>>
    /\ UNCHANGED <<objVars, capVars, sigVars, envVars>>

\* Lines 234-236: `if stop_button:` release and stop.
StopCheck ==
    /\ pc = "stopcheck"
    /\ IF stop_button
       THEN /\ releases' = releases + 1
            /\ capOpen' = FALSE
            /\ pc' = AfterStop
       ELSE /\ UNCHANGED <<releases, capOpen>>
            /\ pc' = "emit"
    /\ UNCHANGED <<opened, pos, lastRead, started, report>>
    /\ UNCHANGED <<objVars, cfgVars, loopVars, sigVars, envVars>>

\* Lines 238-239: show the original and the annotated frame.
Emit ==
    /\ pc = "emit"
    /\ emitted' = Append(emitted, <<frame, annotated>>)
    /\ pc' = "loop"
    /\ UNCHANGED <<frame, annotated, nInfer, nTrack, calls, started, report>>
    /\ UNCHANGED <<objVars, cfgVars, capVars, sigVars, envVars>>

\* Lines 241-242: cap.release() after the loop.
Release ==
    /\ pc = "release"
    /\ releases' = releases + 1
    /\ capOpen' = FALSE
    /\ pc' = "done"
    /\ UNCHANGED <<opened, pos, lastRead, started, report>>
    /\ UNCHANGED <<objVars, cfgVars, loopVars, sigVars, envVars>>

\* The user clicks Stop while the frame loop is running.  Nothing in the loop
\* reads the button again: stop_button keeps the value of line 216.
PressStop ==
    /\ pc \in {"loop", "read", "infer", "stopcheck", "emit"}
    /\ stopAt = NoStop
    /\ stopAt' = pos
    /\ UNCHANGED <<pc, stop_button, started, report>>
    /\ UNCHANGED <<objVars, cfgVars, capVars, loopVars, envVars>>

\* The user moves the sliders while the frame loop is running.
EditUI ==
    /\ pc \in {"loop", "read", "infer", "stopcheck", "emit"}
    /\ \E v \in Thresholds \ {ui} : ui' = v
    /\ UNCHANGED <<pc, started, report, argv, snap>>
    /\ UNCHANGED <<objVars, cfgVars, capVars, loopVars, sigVars>>

Ended == pc \in {"done", "stopped", "crashed"}

\* The next script run: the __main__ block builds a new Inference object
\* (__init__) and calls inference().  Only the files on disk carry over; the
\* previous model object is left behind with its tracker state.  The process
\* argument stays; the sliders may have been moved in between.
Rerun ==
    /\ Ended
    /\ pc' = "sidebar"
    /\ source' = "None"
    /\ enable_trk' = "False"
    /\ vid_file_name' = "None"
    /\ stream' = NoStream
    /\ image_data' = "unset"
    /\ selected_model' = "None"
    /\ model' = None
    /\ fetched' = FALSE
    /\ fetchRes' = Absent
    /\ started' = FALSE
    /\ stop_button' = FALSE
    /\ stopAt' = NoStop
    /\ opened' = "na"
    /\ capOpen' = FALSE
    /\ pos' = 0
    /\ lastRead' = "none"
    /\ frame' = NoFrame
    /\ annotated' = NoFrame
    /\ nInfer' = 0
    /\ model_path' = argv
    /\ conf' = DefaultThr
    /\ selected_ind' = {}
    /\ snap' = NoSnap
    /\ calls' = <<>>
    /\ dlRaised' = FALSE
    /\ argv' = argv
    /\ ui' \in Thresholds
    /\ nTrack' = 0
    /\ emitted' = <<>>
    /\ releases' = 0
    /\ report' = "none"
    /\ retired' = Left(model)
    /\ disk' = disk

Next ==
    \/ Sidebar
    \/ SourceUpload
    \/ Configure
    \/ Start
    \/ ImageRun
    \/ Open
    \/ LoopTest
    \/ Read
    \/ Infer
    \/ StopCheck
    \/ Emit
    \/ Release
    \/ PressStop
    \/ EditUI
    \/ Rerun

Spec == Init /\ [][Next]_vars

\* ---- run states of the specification, read off the program --------------
StreamRun == started /\ source \in {"video", "webcam"}
ImageStart == started /\ source = "image"
Finished == pc \in {"done", "stopped"}
Stopped == Finished /\ report = "none"
Failed == Ended /\ report # "none"

\* ---- claims -------------------------------------------------------------

\* C1: a stream run whose capture opened has released the handle exactly once
\* when it ends (end of stream, failed read or Stop), and at no time more
\* than once.
C1_ReleasedExactlyOnce ==
    /\ releases <= 1
    /\ (Finished /\ StreamRun /\ opened = "yes") => releases = 1

\* A run that left the loop through the Stop branch, handle released once.
C1_Witness ==
    /\ pc = "stopped"
    /\ opened = "yes"
    /\ stop_button
    /\ releases = 1

\* C2: a video of n readable frames followed by exhaustion, with no Stop,
\* ends with exactly n emissions and in Stopped (no failure reported).
C2_EofEndsStopped ==
    (pc = "done" /\ StreamRun /\ opened = "yes" /\ lastRead = "eof" /\ stopAt = NoStop)
        => (Len(emitted) = stream.n /\ Stopped)

\* C3: once Stop has been signalled with k reads made, the run shows at most
\* k + 1 pairs.
C3_StopObserved ==
    (StreamRun /\ stopAt # NoStop) => Len(emitted) <= stopAt + 1

\* C4: after the read of frame k fails, exactly k pairs have been shown, the
\* failure is reported, no further read is made (k + 1 reads in all) and the
\* run is on its way out of the loop.
C4_FailFast ==
    (opened = "yes" /\ lastRead = "error")
        => /\ pos = stream.failAt + 1
           /\ Len(emitted) = stream.failAt
           /\ report = "warn_read"
           /\ pc \in {"release", "done"}
           /\ (pc = "done" => Failed)

\* A run ended by a failed read after at least one frame was shown.
C4_Witness ==
    /\ pc = "done"
    /\ opened = "yes"
    /\ lastRead = "error"
    /\ stream.failAt >= 1
    /\ Len(emitted) = stream.failAt
    /\ stream.n > stream.failAt

\* C5: a started image run never shows more than one pair; one that ends
\* without an error shows exactly one; with a decodable upload it ends in
\* Stopped with exactly one.
C5_ImageOneEmission ==
    /\ ImageStart => Len(emitted) <= 1
    /\ (ImageStart /\ Finished /\ report = "none") => Len(emitted) = 1
    /\ (ImageStart /\ image_data = "ok" /\ Ended) => (Stopped /\ Len(emitted) = 1)

\* An image run that ended after showing its one pair.
C5_Witness ==
    /\ ImageStart
    /\ pc = "done"
    /\ image_data = "ok"
    /\ emitted = <<(<<1, 1>>)>>
    /\ report = "none"

\* C6: when the capture did not open, the error is reported, and no frame is
\* read, no model call is made and nothing is shown in that run, which ends
\* in Failed.
C6_OpenFailure ==
    opened = "no"
        => /\ report = "error_open"
           /\ pos = 0
           /\ nInfer = 0
           /\ emitted = <<>>
           /\ (Ended => Failed)

\* A video run with no upload that ended after the open error.
C6_Witness ==
    /\ pc = "done"
    /\ StreamRun
    /\ opened = "no"
    /\ vid_file_name = ""
    /\ report = "error_open"
    /\ releases = 1

\* C7: no failure ends a script run with an unhandled error.
C7_FailuresRecovered == pc # "crashed"

\* C8: the tracker state of the run's model object is exactly what this run's
\* own track calls built: nothing of an earlier run is in it.
C8_TrackerFreshPerRun == model.trk = nTrack

\* A second run tracking its frames after a first run that tracked too.
C8_Witness ==
    /\ retired >= 1
    /\ source = "video"
    /\ enable_trk = "Yes"
    /\ nTrack >= 1
    /\ model.trk = nTrack

\* C9: a configure step that finds models/<name>.pt present makes no fetch
\* and leaves every file as it was.
C9_PresentNoFetch ==
    [][(pc = "configure" /\ Exists(disk, selected_model'))
          => (disk' = disk /\ ~fetched' /\ fetchRes' = Absent)]_vars

\* A later run whose configure found the artifact of an earlier run present.
C9_Witness ==
    /\ pc = "start"
    /\ ~fetched
    /\ Exists(disk, selected_model)
    /\ model.name = selected_model

\* C10: when the fetch left no file or one of at most MinBytes bytes, no file
\* is kept, no model object is made, the failure surfaces as an error, and
\* the run never starts: no capture is opened, no frame read or shown.
C10_FailedFetchNoRun ==
    (fetched /\ (fetchRes = Absent \/ fetchRes <= MinBytes))
        => /\ ~Exists(disk, selected_model)
           /\ model = None
           /\ pc = "crashed"
           /\ report = "exception"
           /\ ~started
           /\ opened = "na"
           /\ pos = 0
           /\ nInfer = 0
           /\ emitted = <<>>

\* A fetch that left a file of exactly MinBytes bytes.
C10_Witness ==
    /\ fetched
    /\ fetchRes = MinBytes
    /\ pc = "crashed"
    /\ model = None

\* C11: when the process was started with a model identifier, the model
\* loaded for the run is the one the argument names.
C11_ArgumentSelectsModel ==
    (argv # "None" /\ model # None) => model.name = argv

C13_ModeFollowsTracking ==
    \A i \in 1..Len(calls) :
        (calls[i].mode = "track" /\ calls[i].persist) <=> (enable_trk = "Yes")

\* C13 (amended): in a video or webcam run each frame read gets exactly one
\* model call, a track call with persist when tracking is enabled and a plain
\* call otherwise; the single call of an image run is always a plain call.
C13_ModeByBranch ==
    /\ Len(calls) = nInfer
    /\ StreamRun =>
          /\ \A i \in 1..Len(calls) :
                /\ calls[i].frame = i
                /\ (calls[i].mode = "track" /\ calls[i].persist) <=> (enable_trk = "Yes")
                /\ calls[i].mode \in {"track", "detect"}
          /\ nTrack = (IF enable_trk = "Yes" THEN Len(calls) ELSE 0)
          /\ (pc \in {"stopcheck", "emit", "stopped"} => Len(calls) = pos)
    /\ ImageStart =>
          /\ Len(calls) <= 1
          /\ nTrack = 0
          /\ \A i \in 1..Len(calls) : (calls[i].mode = "detect" /\ ~calls[i].persist)

\* An image run with tracking enabled that made its one, plain, call.
C13_Witness ==
    /\ ImageStart
    /\ enable_trk = "Yes"
    /\ pc = "done"
    /\ Len(calls) = 1
    /\ calls[1].mode = "detect"

\* C14: a model call made with an empty class selection yields the
\* detections of a call made without a class filter.
C14_EmptyMeansNoFilter ==
    \A i \in 1..Len(calls) :
        (selected_ind = {}) => calls[i].dets = Filter(StubDetections, NoClasses)

\* C15: during a started run the configuration attributes keep the values
\* they had at Start, every model call of the run passes those values
\* (thresholds, class list, and in a stream run the tracking choice), and the
\* values taken at Start are the ones the page held then.
C15_SnapshotPerRun ==
    started =>
        /\ snap = [thr |-> conf, classes |-> selected_ind, trk |-> enable_trk]
        /\ \A i \in 1..Len(calls) :
              /\ calls[i].thr = snap.thr
              /\ calls[i].classes = ClassesArg(snap.classes)
              /\ StreamRun => ((calls[i].mode = "track") <=> (snap.trk = "Yes"))
        /\ (pc \in {"image", "open"} => snap.thr = ui)

\* A stream run started with moved sliders, whose second call still passes
\* the values of its Start although the sliders were moved again meanwhile.
C15_Witness ==
    /\ StreamRun
    /\ snap.thr # DefaultThr
    /\ ui # snap.thr
    /\ Len(calls) >= 2
    /\ calls[2].thr = snap.thr

\* C16: a read, a model call, the Stop test and a display happen only while
\* the handle is open and unreleased; once the handle has been released
\* the run is over; a handle that did not open is never read.
C16_NoUseAfterRelease ==
    /\ (pc \in {"read", "infer", "stopcheck", "emit"}
           => (capOpen /\ opened = "yes" /\ releases = 0))
    /\ (releases >= 1 => (~capOpen /\ pc \in {"done", "stopped"}))
    /\ (capOpen => opened = "yes")
    /\ (opened # "yes" => (pos = 0 /\ lastRead = "none"))

\* A video run that showed frames, reached the end of the stream and released
\* the handle: nothing follows the release.
C16_Witness ==
    /\ pc = "done"
    /\ opened = "yes"
    /\ lastRead = "eof"
    /\ Len(emitted) >= 1
    /\ releases = 1
    /\ ~capOpen

\* C17: in a stream run the i-th pair shown is the i-th frame read together
\* with the plot of the model call made on that same frame (so the pairs are
\* in read order and no frame is shown twice), and no more pairs are shown
\* than reads have succeeded.
C17_EmissionsPairFrames ==
    StreamRun =>
        /\ \A i \in 1..Len(emitted) :
              /\ emitted[i][1] = i
              /\ emitted[i][1] # NoFrame
              /\ emitted[i][2] = emitted[i][1]
              /\ i <= Len(calls)
              /\ calls[i].frame = emitted[i][1]
        /\ Len(emitted) <= pos - (IF lastRead \in {"eof", "error"} THEN 1 ELSE 0)

\* A stream run that has shown three pairs.
C17_Witness ==
    /\ StreamRun
    /\ Len(emitted) = 3
    /\ emitted[3] = <<3, 3>>
    /\ pos = 3

\* C18: after a call of download_from_gdrive that made the fetch, the call
\* has returned without raising, and models/<name>.pt is absent or larger
\* than MinBytes: a fetched file of at most MinBytes bytes is removed, a
\* larger one is kept as fetched.
C18_DownloadPostcondition ==
    /\ \A m \in GDRIVE_MODELS : (disk[m] = Absent \/ disk[m] > MinBytes)
    /\ fetched =>
          /\ ~dlRaised
          /\ (fetchRes <= MinBytes => ~Exists(disk, selected_model))
          /\ (fetchRes > MinBytes => disk[selected_model] = fetchRes)

\* A fetch that left no file at all: the call returned, nothing is on disk.
C18_Witness ==
    /\ fetched
    /\ fetchRes = Absent
    /\ ~dlRaised
    /\ ~Exists(disk, selected_model)

====
